---- MODULE Spec2Model ----
(***************************************************************************)
(* Model of src/builder/mod.rs of the uuid crate: the constructors of      *)
(* Uuid and Builder, the variant/version tagging of a Builder and its      *)
(* finalisation.                                                           *)
(*                                                                         *)
(* Representation.  A byte array (Bytes, [u8; 16], a slice) is a sequence  *)
(* of numbers 0..255; the source's index i is position i + 1.  TLC's       *)
(* integers are 32 bits wide, so an unsigned integer of the source (u16,   *)
(* u32, u64, u128) is a sequence of 16-bit limbs, least significant limb   *)
(* first: 1, 2, 4 and 8 limbs.  Shr and AsU8 compute `>>` and `as u8` on   *)
(* that representation.                                                    *)
(***************************************************************************)
EXTENDS Integers, Sequences, FiniteSets, TLC

VARIABLES
    builder,    \* the bytes of the Builder the caller holds, <<>> when none
    b0,         \* the bytes that Builder was created with, <<>> when none
    op,         \* the operation that ran last
    args,       \* its arguments
    ret         \* what it returned

vars == <<builder, b0, op, args, ret>>

-----------------------------------------------------------------------------
(* Bounds of the explored inputs *)

\* slices of 0 .. MaxSliceLen bytes are handed to from_slice
MaxSliceLen == 18
\* slices of 0 .. MaxD4Len bytes are handed to Uuid::from_fields_le as d4
MaxD4Len == 9

-----------------------------------------------------------------------------
(* Primitive operations of the language *)

\* bit i of the byte x
Bit(x, i) == (x \div (2 ^ i)) % 2

\* x & y on u8
BitAnd(x, y) ==
    LET b(i) == IF (x \div i) % 2 = 1 /\ (y \div i) % 2 = 1 THEN i ELSE 0
    IN b(1) + b(2) + b(4) + b(8) + b(16) + b(32) + b(64) + b(128)

\* x | y on u8
BitOr(x, y) ==
    LET b(i) == IF (x \div i) % 2 = 1 \/ (y \div i) % 2 = 1 THEN i ELSE 0
    IN b(1) + b(2) + b(4) + b(8) + b(16) + b(32) + b(64) + b(128)

\* x << k on u8: the bits shifted out of the byte are lost
Shl8(x, k) == (x * (2 ^ k)) % 256

\* v >> k on an unsigned integer held as 16-bit limbs
Shr(v, k) ==
    LET q == k \div 16
        r == k % 16
        limb(i) == IF i <= Len(v) THEN v[i] ELSE 0
    IN [i \in 1..Len(v) |->
            (limb(i + q) \div (2 ^ r)) + (limb(i + q + 1) % (2 ^ r)) * (2 ^ (16 - r))]

\* v as u8: the low 8 bits
AsU8(v) == v[1] % 256

\* a[i] with the source's 0-based index
At(a, i) == a[i + 1]

\* a[i] = x with the source's 0-based index
Upd(a, i, x) == [a EXCEPT ![i + 1] = x]

-----------------------------------------------------------------------------
(* Results *)

Ok(bytes) == [tag |-> "Ok", bytes |-> bytes]

\* Error::new(expected, found)
Err(expected, found) == [tag |-> "Err", expected |-> expected, actual |-> found]

\* an index out of the bounds of a slice aborts the call
Panic == [tag |-> "Panic"]

-----------------------------------------------------------------------------
(* impl Uuid *)

BYTES_LEN == 16

UuidFromBytes(bytes) == Ok(bytes)

UuidNil == UuidFromBytes([i \in 1..16 |-> 0])

UuidFromFields(d1, d2, d3, d4) ==
    UuidFromBytes(<<
        AsU8(Shr(d1, 24)), AsU8(Shr(d1, 16)), AsU8(Shr(d1, 8)), AsU8(d1),
        AsU8(Shr(d2, 8)), AsU8(d2),
        AsU8(Shr(d3, 8)), AsU8(d3),
        At(d4, 0), At(d4, 1), At(d4, 2), At(d4, 3),
        At(d4, 4), At(d4, 5), At(d4, 6), At(d4, 7) >>)

\* Uuid::from_fields_le with d3 left in big-endian order
UuidFromFieldsLe_d3BigEndian(d1, d2, d3, d4) ==
    IF \E i \in 0..7 : i >= Len(d4)
    THEN Panic
    ELSE UuidFromBytes(<<
        AsU8(d1), AsU8(Shr(d1, 8)), AsU8(Shr(d1, 16)), AsU8(Shr(d1, 24)),
        AsU8(d2), AsU8(Shr(d2, 8)),
        AsU8(Shr(d3, 8)), AsU8(d3),
        At(d4, 0), At(d4, 1), At(d4, 2), At(d4, 3),
        At(d4, 4), At(d4, 5), At(d4, 6), At(d4, 7) >>)

\* d4 is a slice: each d4[i] is bounds checked
UuidFromFieldsLe(d1, d2, d3, d4) ==
    IF \E i \in 0..7 : i >= Len(d4)
    THEN Panic
    ELSE UuidFromBytes(<<
        AsU8(d1), AsU8(Shr(d1, 8)), AsU8(Shr(d1, 16)), AsU8(Shr(d1, 24)),
        AsU8(d2), AsU8(Shr(d2, 8)),
        AsU8(d3), AsU8(Shr(d3, 8)),
        At(d4, 0), At(d4, 1), At(d4, 2), At(d4, 3),
        At(d4, 4), At(d4, 5), At(d4, 6), At(d4, 7) >>)

\* Uuid::from_u128 with the shifts by 88 and by 80 exchanged
UuidFromU128_shiftsExchanged(v) ==
    UuidFromBytes(<<
        AsU8(Shr(v, 120)), AsU8(Shr(v, 112)), AsU8(Shr(v, 104)), AsU8(Shr(v, 96)),
        AsU8(Shr(v, 80)), AsU8(Shr(v, 88)), AsU8(Shr(v, 72)), AsU8(Shr(v, 64)),
        AsU8(Shr(v, 56)), AsU8(Shr(v, 48)), AsU8(Shr(v, 40)), AsU8(Shr(v, 32)),
        AsU8(Shr(v, 24)), AsU8(Shr(v, 16)), AsU8(Shr(v, 8)), AsU8(v) >>)

UuidFromU128(v) ==
    UuidFromBytes(<<
        AsU8(Shr(v, 120)), AsU8(Shr(v, 112)), AsU8(Shr(v, 104)), AsU8(Shr(v, 96)),
        AsU8(Shr(v, 88)), AsU8(Shr(v, 80)), AsU8(Shr(v, 72)), AsU8(Shr(v, 64)),
        AsU8(Shr(v, 56)), AsU8(Shr(v, 48)), AsU8(Shr(v, 40)), AsU8(Shr(v, 32)),
        AsU8(Shr(v, 24)), AsU8(Shr(v, 16)), AsU8(Shr(v, 8)), AsU8(v) >>)

\* Uuid::from_u128_le reversing each field (4, 2, 2 bytes) and not the last 8 bytes
UuidFromU128Le_perField(v) ==
    UuidFromBytes(<<
        AsU8(Shr(v, 96)), AsU8(Shr(v, 104)), AsU8(Shr(v, 112)), AsU8(Shr(v, 120)),
        AsU8(Shr(v, 80)), AsU8(Shr(v, 88)), AsU8(Shr(v, 64)), AsU8(Shr(v, 72)),
        AsU8(Shr(v, 56)), AsU8(Shr(v, 48)), AsU8(Shr(v, 40)), AsU8(Shr(v, 32)),
        AsU8(Shr(v, 24)), AsU8(Shr(v, 16)), AsU8(Shr(v, 8)), AsU8(v) >>)

UuidFromU128Le(v) ==
    UuidFromBytes(<<
        AsU8(v), AsU8(Shr(v, 8)), AsU8(Shr(v, 16)), AsU8(Shr(v, 24)),
        AsU8(Shr(v, 32)), AsU8(Shr(v, 40)), AsU8(Shr(v, 48)), AsU8(Shr(v, 56)),
        AsU8(Shr(v, 64)), AsU8(Shr(v, 72)), AsU8(Shr(v, 80)), AsU8(Shr(v, 88)),
        AsU8(Shr(v, 96)), AsU8(Shr(v, 104)), AsU8(Shr(v, 112)), AsU8(Shr(v, 120)) >>)

UuidFromU64Pair(high_bits, low_bits) ==
    UuidFromBytes(<<
        AsU8(Shr(high_bits, 56)), AsU8(Shr(high_bits, 48)),
        AsU8(Shr(high_bits, 40)), AsU8(Shr(high_bits, 32)),
        AsU8(Shr(high_bits, 24)), AsU8(Shr(high_bits, 16)),
        AsU8(Shr(high_bits, 8)), AsU8(high_bits),
        AsU8(Shr(low_bits, 56)), AsU8(Shr(low_bits, 48)),
        AsU8(Shr(low_bits, 40)), AsU8(Shr(low_bits, 32)),
        AsU8(Shr(low_bits, 24)), AsU8(Shr(low_bits, 16)),
        AsU8(Shr(low_bits, 8)), AsU8(low_bits) >>)

\* Uuid::from_slice refusing only the slices that are too short
UuidFromSlice_tooShortOnly(b) ==
    LET len == Len(b) IN
    IF len < BYTES_LEN
    THEN Err(BYTES_LEN, len)
    ELSE UuidFromBytes([i \in 1..16 |-> b[i]])

UuidFromSlice(b) ==
    LET len == Len(b) IN
    IF len # BYTES_LEN
    THEN Err(BYTES_LEN, len)
    ELSE UuidFromBytes([i \in 1..16 |-> b[i]])

-----------------------------------------------------------------------------
(* impl Builder *)

BuilderFromBytes(b) == Ok(b)

BuilderFromSlice(b) ==
    LET len == Len(b) IN
    IF len # BYTES_LEN
    THEN Err(BYTES_LEN, len)
    ELSE BuilderFromBytes([i \in 1..16 |-> b[i]])

BuilderFromFields(d1, d2, d3, d4) == BuilderFromBytes(UuidFromFields(d1, d2, d3, d4).bytes)

\* d4 is &[u8; 8] here, so the Uuid constructor it calls cannot abort
BuilderFromFieldsLe(d1, d2, d3, d4) == BuilderFromBytes(UuidFromFieldsLe(d1, d2, d3, d4).bytes)

BuilderFromU128(v) == BuilderFromBytes(UuidFromU128(v).bytes)

BuilderNil == Ok([i \in 1..16 |-> 0])

\* crate::Variant
Variants == {"NCS", "RFC4122", "Microsoft", "Future"}

\* crate::Version as u8
Versions == 0..15

\* set_variant with the RFC4122 mask one bit too wide
SetVariant_wideMask(self, v) ==
    LET byte == At(self, 8) IN
    Upd(self, 8,
        CASE v = "NCS"       -> BitAnd(byte, \h7F)
          [] v = "RFC4122"   -> BitOr(BitAnd(byte, \h7F), \h80)
          [] v = "Microsoft" -> BitOr(BitAnd(byte, \h1F), \hC0)
          [] v = "Future"    -> BitOr(BitAnd(byte, \h1F), \hE0))

\* set_variant with the Microsoft mask one bit too narrow
SetVariant_narrowMask(self, v) ==
    LET byte == At(self, 8) IN
    Upd(self, 8,
        CASE v = "NCS"       -> BitAnd(byte, \h7F)
          [] v = "RFC4122"   -> BitOr(BitAnd(byte, \h3F), \h80)
          [] v = "Microsoft" -> BitOr(BitAnd(byte, \h0F), \hC0)
          [] v = "Future"    -> BitOr(BitAnd(byte, \h1F), \hE0))

SetVariant(self, v) ==
    LET byte == At(self, 8) IN
    Upd(self, 8,
        CASE v = "NCS"       -> BitAnd(byte, \h7F)
          [] v = "RFC4122"   -> BitOr(BitAnd(byte, \h3F), \h80)
          [] v = "Microsoft" -> BitOr(BitAnd(byte, \h1F), \hC0)
          [] v = "Future"    -> BitOr(BitAnd(byte, \h1F), \hE0))

WithVariant(self, v) ==
    LET byte == At(self, 8) IN
    Upd(self, 8,
        CASE v = "NCS"       -> BitAnd(byte, \h7F)
          [] v = "RFC4122"   -> BitOr(BitAnd(byte, \h3F), \h80)
          [] v = "Microsoft" -> BitOr(BitAnd(byte, \h1F), \hC0)
          [] v = "Future"    -> BitOr(BitAnd(byte, \h1F), \hE0))

\* set_version writing the byte set_variant writes
SetVersion_index8(self, v) ==
    Upd(self, 8, BitOr(BitAnd(At(self, 8), \h0F), Shl8(v, 4)))

\* set_version moving the old high nibble down instead of keeping the low one
SetVersion_shiftedDown(self, v) ==
    Upd(self, 6, BitOr(At(self, 6) \div 16, Shl8(v, 4)))

SetVersion(self, v) ==
    Upd(self, 6, BitOr(BitAnd(At(self, 6), \h0F), Shl8(v, 4)))

\* with_version without the shift of the version number
WithVersion_noShift(self, v) ==
    Upd(self, 6, BitOr(BitAnd(At(self, 6), \h0F), v))

WithVersion(self, v) ==
    Upd(self, 6, BitOr(BitAnd(At(self, 6), \h0F), Shl8(v, 4)))

Build(self) == UuidFromBytes(self)

IntoUuid(self) == UuidFromBytes(self)

-----------------------------------------------------------------------------
(* Inputs the operations are called with *)

\* n bytes x, x+1, x+2, ... (wrapping at 256)
Ramp(x, n) == [i \in 1..n |-> (x + i - 1) % 256]

\* [u8; 16] values: every value of the low nibble of byte 6 and of the low 5
\* bits of byte 8 occurs; the tagging operations reach the other bits
ByteArrays ==
    {Ramp(x, 16) : x \in 0..31}
    \cup {<<70, 235, 208, 238, 14, 109, 67, 201, 185, 13, 204, 195, 90, 145, 63, 62>>}

\* &[u8] values of every length 0 .. MaxSliceLen
Slices ==
    {Ramp(x, n) : x \in {0, 4, 250}, n \in 0..MaxSliceLen}
    \cup {<<4, 54, 67, 12, 43, 2, 98, 76, 32, 50, 87, 5, 1, 33, 43, 87>>,
          <<4, 54, 67, 12, 43, 2, 98, 76>>}

\* u32 values, low limb first
U32s == {<<\h1097, \hAB3F>>, <<0, 0>>, <<\hFFFF, \hFFFF>>, <<1, 0>>,
         <<0, \h0100>>, <<\h5678, \h1234>>, <<0, \h8000>>}

\* u16 values
U16s == {<<\h501E>>, <<\hB736>>, <<0>>, <<\hFFFF>>, <<\h00FF>>, <<\h0100>>}

\* [u8; 8] values
D4Arrays == {<<12, 3, 9, 56, 54, 43, 8, 9>>, Ramp(0, 8), Ramp(250, 8),
             [i \in 1..8 |-> 255]}

\* &[u8] values for the d4 of Uuid::from_fields_le
D4Slices == D4Arrays \cup {Ramp(1, n) : n \in 0..MaxD4Len}

\* the integer of `limbs` limbs whose byte p (0 = least significant) is c
OneByte(limbs, p, c) ==
    [i \in 1..limbs |->
        IF i = (p \div 2) + 1 THEN (IF p % 2 = 0 THEN c ELSE c * 256) ELSE 0]

\* u128 values, low limb first
U128s ==
    {OneByte(8, p, c) : p \in 0..15, c \in {1, \h80, \hFF}}
    \cup {<<\hD7D8, \hD5D6, \hD3D4, \hD1D2, \hC1C2, \hB1B2, \hA3A4, \hA1A2>>,
          <<\hA2A1, \hA4A3, \hB2B1, \hC2C1, \hD2D1, \hD4D3, \hD6D5, \hD8D7>>,
          <<\h0F10, \h0D0E, \h0B0C, \h090A, \h0708, \h0506, \h0304, \h0102>>,
          [i \in 1..8 |-> 0], [i \in 1..8 |-> \hFFFF]}

\* u64 values, low limb first
U64s ==
    {OneByte(4, p, \hA5) : p \in 0..7}
    \cup {<<\hC1C2, \hB1B2, \hA3A4, \hA1A2>>, <<\hD7D8, \hD5D6, \hD3D4, \hD1D2>>,
          [i \in 1..4 |-> 0], [i \in 1..4 |-> \hFFFF]}

\* the field values the Builder constructors are called with
BuilderD1s == {<<\h1097, \hAB3F>>, <<\h5678, \h1234>>}
BuilderD2s == {<<\h501E>>}
BuilderD3s == {<<\hB736>>}
BuilderD4s == {<<12, 3, 9, 56, 54, 43, 8, 9>>, Ramp(250, 8)}
BuilderU128s ==
    {<<\hD7D8, \hD5D6, \hD3D4, \hD1D2, \hC1C2, \hB1B2, \hA3A4, \hA1A2>>,
     [i \in 1..8 |-> \hFFFF], OneByte(8, 7, \h3E)}

-----------------------------------------------------------------------------
(* Initial state: nothing has been called, the caller holds no Builder *)

Init ==
    /\ builder = <<>>
    /\ b0 = <<>>
    /\ op = "none"
    /\ args = <<>>
    /\ ret = [tag |-> "None"]

-----------------------------------------------------------------------------
(* Calls of the Uuid constructors: they leave the caller's Builder alone *)

Returned(name, a, r) ==
    /\ op' = name
    /\ args' = a
    /\ ret' = r

\* a behaviour follows one value from its construction on: a constructor is
\* the first call of a behaviour
Fresh == op = "none"

CallUuidNil ==
    /\ Fresh
    /\ Returned("Uuid::nil", <<>>, UuidNil)
    /\ UNCHANGED <<builder, b0>>

CallUuidFromBytes ==
    /\ Fresh
    /\ \E b \in ByteArrays :
        Returned("Uuid::from_bytes", b, UuidFromBytes(b))
    /\ UNCHANGED <<builder, b0>>

CallUuidFromSlice ==
    /\ Fresh
    /\ \E b \in Slices :
        Returned("Uuid::from_slice", b, UuidFromSlice(b))
    /\ UNCHANGED <<builder, b0>>

CallUuidFromFields ==
    /\ Fresh
    /\ \E d1 \in U32s, d2 \in U16s, d3 \in U16s, d4 \in D4Arrays :
        Returned("Uuid::from_fields", [d1 |-> d1, d2 |-> d2, d3 |-> d3, d4 |-> d4],
                    UuidFromFields(d1, d2, d3, d4))
    /\ UNCHANGED <<builder, b0>>

CallUuidFromFieldsLe ==
    /\ Fresh
    /\ \E d1 \in U32s, d2 \in U16s, d3 \in U16s, d4 \in D4Slices :
        Returned("Uuid::from_fields_le", [d1 |-> d1, d2 |-> d2, d3 |-> d3, d4 |-> d4],
                    UuidFromFieldsLe(d1, d2, d3, d4))
    /\ UNCHANGED <<builder, b0>>

CallUuidFromU128 ==
    /\ Fresh
    /\ \E v \in U128s :
        Returned("Uuid::from_u128", v, UuidFromU128(v))
    /\ UNCHANGED <<builder, b0>>

CallUuidFromU128Le ==
    /\ Fresh
    /\ \E v \in U128s :
        Returned("Uuid::from_u128_le", v, UuidFromU128Le(v))
    /\ UNCHANGED <<builder, b0>>

CallUuidFromU64Pair ==
    /\ Fresh
    /\ \E high_bits \in U64s, low_bits \in U64s :
        Returned("Uuid::from_u64_pair", [high_bits |-> high_bits, low_bits |-> low_bits],
                    UuidFromU64Pair(high_bits, low_bits))
    /\ UNCHANGED <<builder, b0>>

-----------------------------------------------------------------------------
(* Calls of the Builder constructors: the caller holds the Builder returned *)

\* the caller keeps the Builder of an Ok result; an Err leaves it with what it had
Created(name, a, r) ==
    /\ Fresh
    /\ Returned(name, a, r)
    /\ IF r.tag = "Ok"
       THEN builder' = r.bytes /\ b0' = r.bytes
       ELSE UNCHANGED <<builder, b0>>

CallBuilderFromBytes ==
    \E b \in ByteArrays : Created("Builder::from_bytes", b, BuilderFromBytes(b))

CallBuilderFromSlice ==
    \E b \in Slices : Created("Builder::from_slice", b, BuilderFromSlice(b))

CallBuilderFromFields ==
    \E d1 \in BuilderD1s, d2 \in BuilderD2s, d3 \in BuilderD3s, d4 \in BuilderD4s :
        Created("Builder::from_fields", [d1 |-> d1, d2 |-> d2, d3 |-> d3, d4 |-> d4],
                BuilderFromFields(d1, d2, d3, d4))

CallBuilderFromFieldsLe ==
    \E d1 \in BuilderD1s, d2 \in BuilderD2s, d3 \in BuilderD3s, d4 \in BuilderD4s :
        Created("Builder::from_fields_le", [d1 |-> d1, d2 |-> d2, d3 |-> d3, d4 |-> d4],
                BuilderFromFieldsLe(d1, d2, d3, d4))

CallBuilderFromU128 ==
    \E v \in BuilderU128s : Created("Builder::from_u128", v, BuilderFromU128(v))

CallBuilderNil == Created("Builder::nil", <<>>, BuilderNil)

-----------------------------------------------------------------------------
(* Calls on the Builder the caller holds *)

\* set_* return the Builder they changed, with_* the changed Builder itself
Self == [tag |-> "Self"]

CallSetVariant ==
    /\ builder # <<>>
    /\ \E v \in Variants :
        /\ builder' = SetVariant(builder, v)
        /\ Returned("set_variant", v, Self)
    /\ UNCHANGED b0

CallWithVariant ==
    /\ builder # <<>>
    /\ \E v \in Variants :
        /\ builder' = WithVariant(builder, v)
        /\ Returned("with_variant", v, Self)
    /\ UNCHANGED b0

CallSetVersion ==
    /\ builder # <<>>
    /\ \E v \in Versions :
        /\ builder' = SetVersion(builder, v)
        /\ Returned("set_version", v, Self)
    /\ UNCHANGED b0

CallWithVersion ==
    /\ builder # <<>>
    /\ \E v \in Versions :
        /\ builder' = WithVersion(builder, v)
        /\ Returned("with_version", v, Self)
    /\ UNCHANGED b0

\* build borrows the Builder
CallBuild ==
    /\ builder # <<>>
    /\ Returned("build", <<>>, Build(builder))
    /\ UNCHANGED <<builder, b0>>

\* into_uuid takes the Builder: the caller holds none afterwards
CallIntoUuid ==
    /\ builder # <<>>
    /\ Returned("into_uuid", <<>>, IntoUuid(builder))
    /\ builder' = <<>>
    /\ b0' = <<>>

-----------------------------------------------------------------------------
(* Specifications *)

\* the life of a Builder: construction, tagging, finalisation
Next ==
    \/ CallBuilderFromBytes
    \/ CallBuilderFromSlice
    \/ CallBuilderFromFields
    \/ CallBuilderFromFieldsLe
    \/ CallBuilderFromU128
    \/ CallBuilderNil
    \/ CallSetVariant
    \/ CallWithVariant
    \/ CallSetVersion
    \/ CallWithVersion
    \/ CallBuild
    \/ CallIntoUuid

Spec == Init /\ [][Next]_vars

\* the constructors of both types
NextCtor ==
    \/ CallUuidNil
    \/ CallUuidFromBytes
    \/ CallUuidFromSlice
    \/ CallUuidFromFields
    \/ CallUuidFromFieldsLe
    \/ CallUuidFromU128
    \/ CallUuidFromU128Le
    \/ CallUuidFromU64Pair
    \/ CallBuilderFromBytes
    \/ CallBuilderFromSlice
    \/ CallBuilderFromFields
    \/ CallBuilderFromFieldsLe
    \/ CallBuilderFromU128
    \/ CallBuilderNil

SpecCtor == Init /\ [][NextCtor]_vars

-----------------------------------------------------------------------------
(* Vocabulary of the properties *)

ByteArrayOps == {"Uuid::nil", "Uuid::from_bytes", "Uuid::from_fields", "Uuid::from_fields_le",
                 "Uuid::from_u128", "Uuid::from_u128_le", "Uuid::from_u64_pair",
                 "Builder::nil", "Builder::from_bytes", "Builder::from_fields",
                 "Builder::from_fields_le", "Builder::from_u128"}

\* byte p (0 = least significant) of an unsigned integer, read off its limbs
ByteOf(v, p) ==
    LET l == v[(p \div 2) + 1] IN IF p % 2 = 0 THEN l % 256 ELSE l \div 256

\* the unsigned integer whose big-endian bytes are b
FromBeBytes(b) ==
    [i \in 1..(Len(b) \div 2) |-> b[Len(b) + 1 - 2 * i] * 256 + b[Len(b) + 2 - 2 * i]]

\* swap_bytes of the standard library: the bytes of the integer in reverse order
SwapBytes(v) ==
    [i \in 1..Len(v) |-> LET l == v[Len(v) + 1 - i] IN (l % 256) * 256 + (l \div 256)]

-----------------------------------------------------------------------------
(* Properties of the constructors, under SpecCtor *)

\* C1: from_slice of Uuid and of Builder succeeds exactly on slices of 16
\* bytes; it then holds those bytes in the same order, as from_bytes does; on
\* any other length it returns the length mismatch error with expected = 16
\* and actual = the length of the slice.
C1_FromSlice ==
    op \in {"Uuid::from_slice", "Builder::from_slice"} =>
        /\ (ret.tag = "Ok") <=> (Len(args) = 16)
        /\ Len(args) = 16 =>
            /\ Len(ret.bytes) = 16
            /\ \A i \in 0..15 : At(ret.bytes, i) = At(args, i)
            /\ ret = IF op = "Uuid::from_slice" THEN UuidFromBytes(args)
                                               ELSE BuilderFromBytes(args)
            /\ op = "Builder::from_slice" => builder = args
        /\ Len(args) # 16 =>
            /\ ret = [tag |-> "Err", expected |-> 16, actual |-> Len(args)]
            /\ builder = <<>>

C1_Witness ==
    /\ op = "Uuid::from_slice"
    /\ Len(args) = 17
    /\ ret.tag = "Err"
    /\ ret.actual = 17

\* C2: every constructor other than from_slice returns a value of 16 bytes,
\* whatever its arguments; the d4 of Uuid::from_fields_le is a slice of any
\* length.
C2_OnlyFromSliceFails ==
    op \in ByteArrayOps => ret.tag = "Ok" /\ Len(ret.bytes) = 16

\* C7: from_fields_le writes d1, d2 and d3 least significant byte first and
\* d4 as it is, which is what from_fields writes for the byte-swapped d1, d2
\* and d3; from_fields writes d1, d2 and d3 most significant byte first.
C7_FieldLaw ==
    /\ (op \in {"Uuid::from_fields_le", "Builder::from_fields_le"} /\ Len(args.d4) = 8) =>
        /\ ret = UuidFromFields(SwapBytes(args.d1), SwapBytes(args.d2),
                                SwapBytes(args.d3), args.d4)
        /\ \A i \in 0..3 : At(ret.bytes, i) = ByteOf(args.d1, i)
        /\ \A i \in 0..1 : At(ret.bytes, 4 + i) = ByteOf(args.d2, i)
        /\ \A i \in 0..1 : At(ret.bytes, 6 + i) = ByteOf(args.d3, i)
        /\ \A i \in 0..7 : At(ret.bytes, 8 + i) = At(args.d4, i)
    /\ op \in {"Uuid::from_fields", "Builder::from_fields"} =>
        /\ \A i \in 0..3 : At(ret.bytes, i) = ByteOf(args.d1, 3 - i)
        /\ \A i \in 0..1 : At(ret.bytes, 4 + i) = ByteOf(args.d2, 1 - i)
        /\ \A i \in 0..1 : At(ret.bytes, 6 + i) = ByteOf(args.d3, 1 - i)
        /\ \A i \in 0..7 : At(ret.bytes, 8 + i) = At(args.d4, i)

C7_Witness ==
    /\ op = "Uuid::from_fields_le"
    /\ args = [d1 |-> <<\h1097, \hAB3F>>, d2 |-> <<\h501E>>, d3 |-> <<\hB736>>,
               d4 |-> <<12, 3, 9, 56, 54, 43, 8, 9>>]
    /\ ret.bytes = <<\h97, \h10, \h3F, \hAB, \h1E, \h50, \h36, \hB7,
                     12, 3, 9, 56, 54, 43, 8, 9>>

\* C8: the bytes of from_u128_le(v) are the bytes of from_u128(v) in reverse
\* order, all 16 of them.
C8_ReversalLaw ==
    op = "Uuid::from_u128_le" =>
        /\ ret.tag = "Ok"
        /\ \A i \in 0..15 : At(ret.bytes, i) = At(UuidFromU128(args).bytes, 15 - i)

C8_Witness ==
    /\ op = "Uuid::from_u128_le"
    /\ args = <<\hA2A1, \hA4A3, \hB2B1, \hC2C1, \hD2D1, \hD4D3, \hD6D5, \hD8D7>>
    /\ ret.bytes = <<\hA1, \hA2, \hA3, \hA4, \hB1, \hB2, \hC1, \hC2,
                     \hD1, \hD2, \hD3, \hD4, \hD5, \hD6, \hD7, \hD8>>

\* C9: from_u128(v) stores v big-endian, byte i being (v >> (8 * (15 - i)))
\* mod 256, so the 16 bytes read as a big-endian integer are v.
C9_BigEndian ==
    op \in {"Uuid::from_u128", "Builder::from_u128"} =>
        /\ ret.tag = "Ok"
        /\ Len(ret.bytes) = 16
        /\ \A i \in 0..15 : At(ret.bytes, i) = ByteOf(args, 15 - i)
        /\ FromBeBytes(ret.bytes) = args

C9_Witness ==
    /\ op = "Uuid::from_u128"
    /\ args = <<\hD7D8, \hD5D6, \hD3D4, \hD1D2, \hC1C2, \hB1B2, \hA3A4, \hA1A2>>
    /\ ret.bytes = <<\hA1, \hA2, \hA3, \hA4, \hB1, \hB2, \hC1, \hC2,
                     \hD1, \hD2, \hD3, \hD4, \hD5, \hD6, \hD7, \hD8>>

-----------------------------------------------------------------------------
(* Properties of the Builder, under Spec *)

\* C3: set_variant and with_variant turn the byte x at index 8 into x & 0x7F
\* for NCS, (x & 0x3F) | 0x80 for RFC4122, (x & 0x1F) | 0xC0 for Microsoft and
\* (x & 0x1F) | 0xE0 for Future, and the two forms agree.
C3_Variant ==
    [][op' \in {"set_variant", "with_variant"} =>
        LET x == At(builder, 8)
            y == At(builder', 8)
        IN /\ args' = "NCS" => y = x % 128
           /\ args' = "RFC4122" => y = 128 + (x % 64)
           /\ args' = "Microsoft" => y = 192 + (x % 32)
           /\ args' = "Future" => y = 224 + (x % 32)
           /\ At(SetVariant(builder, args'), 8) = At(WithVariant(builder, args'), 8)
    ]_vars

C3_Witness ==
    /\ op = "set_variant"
    /\ args = "RFC4122"
    /\ At(b0, 8) = \h3E
    /\ At(builder, 8) = \hBE

\* C4: set_version and with_version turn the byte x at index 6 into
\* (x & 0x0F) | (n << 4): its high nibble is n, its low nibble that of x.
C4_Version ==
    [][op' \in {"set_version", "with_version"} =>
        LET x == At(builder, 6)
            y == At(builder', 6)
        IN /\ y = (x % 16) + 16 * args'
           /\ y \div 16 = args'
           /\ y % 16 = x % 16
    ]_vars

C4_Witness ==
    /\ op = "with_version"
    /\ args = 4
    /\ At(b0, 6) = \h1F
    /\ At(builder, 6) = \h4F

\* C5: set_variant(x) then set_version(y) leaves the same 16 bytes as
\* set_version(y) then set_variant(x): wherever set_version(y) has just run,
\* running set_variant(x) next gives what running set_variant(x) before it
\* would have given.
C5_Commute ==
    [][op' = "set_version" =>
        \A x \in Variants :
            SetVariant(builder', x) = SetVersion(SetVariant(builder, x), args')
    ]_vars

C5_Witness ==
    /\ op = "set_version"
    /\ At(builder, 6) # At(b0, 6)
    /\ At(builder, 8) # At(b0, 8)

\* C6: set_variant(v) called again right after set_variant(v), and
\* set_version(n) called again right after set_version(n), change no byte.
C6_Idempotent ==
    [][(op \in {"set_variant", "set_version"} /\ op' = op /\ args' = args) =>
        builder' = builder
    ]_vars

C6_Witness ==
    /\ op = "set_version"
    /\ args = 5
    /\ At(b0, 6) = \h1F
    /\ At(builder, 6) = \h5F

\* C10: a Builder created from b keeps 16 bytes through any calls of the
\* tagging operations and of build; its bytes other than 6 and 8, the low
\* nibble of byte 6 and the low 5 bits of byte 8 stay those of b; build changes
\* no byte and returns the bytes the Builder holds, as into_uuid would.
C10_Preserved ==
    builder # <<>> =>
        /\ Len(builder) = 16
        /\ \A i \in (0..15) \ {6, 8} : At(builder, i) = At(b0, i)
        /\ At(builder, 6) % 16 = At(b0, 6) % 16
        /\ At(builder, 8) % 32 = At(b0, 8) % 32

C10_Invariant ==
    /\ []C10_Preserved
    /\ [][op' = "build" =>
            /\ builder' = builder
            /\ ret' = [tag |-> "Ok", bytes |-> builder]
            /\ ret' = IntoUuid(builder)
       ]_vars

C10_Witness ==
    /\ op = "build"
    /\ At(builder, 6) # At(b0, 6)
    /\ At(builder, 8) # At(b0, 8)
    /\ ret.bytes = builder

====
